---- MODULE Spec2Model ----
(***************************************************************************)
(* Checkout / payment orchestration of the Telegram shopping bot:          *)
(* the per-user search cache (searchHandler), the checkout session store   *)
(* and its handlers (checkoutHandler), the wallet user map (wallet.ts),    *)
(* the order gateway with its locator-variant loop and the transaction     *)
(* submission (checkout.ts).  Every `await` of a handler is a yield point: *)
(* a handler in flight is a task record in the bag `tasks`.                *)
(***************************************************************************)
EXTENDS Integers, Sequences, FiniteSets, Bags, TLC

\* ---------------------------------------------------------------- bounds
NumUsers    == 1   \* Telegram user ids 1..NumUsers of the checkout runs
NumCacheUsers == 2 \* Telegram user ids 1..NumCacheUsers of the cache runs
MaxTime     == 3   \* the clock runs 0..MaxTime (one unit = one hour)
MaxBuys     == 1   \* buy clicks in flight at once
MaxOrders   == 1   \* order attempts in flight at once
MaxSessions == 2   \* checkout sessions created in one run
MaxTransactions == 2  \* sell transactions a user starts
MaxSends == 2         \* wallet.send calls followed per transaction
MaxEffects == 2       \* runs of the withdrawal effect in flight at once
MaxWaiting == 2       \* searches waiting in enforceRateLimit at once

\* ------------------------------------------------------ program constants
CACHE_DURATION == 2   \* 2 * 60 * 60 * 1000 ms, counted in hours
MaxRetries == 3       \* searchWithRetry: maxRetries = 3
RequestsPerSecond == 10  \* RATE_LIMITS.requestsPerSecond
WindowMs == 2            \* RATE_LIMITS.windowMs: 1000 ms, counted in ticks of 500 ms

None  == "none"          \* an absent string
Nil   == [nil |-> TRUE]  \* null / undefined where an object is expected
NoText == <<>>           \* undefined or '' where a string is expected (both falsy)
\* the result of parseInt: NaN or an integer
NaN    == [nan |-> TRUE, n |-> 0]
Num(k) == [nan |-> FALSE, n |-> k]

\* ------------------------------------------------------------------ text
\* A text is a sequence of one-character strings.
IsSpace(c) == c = " "

RECURSIVE TrimLeft(_)
TrimLeft(s) ==
  IF s # <<>> /\ IsSpace(Head(s)) THEN TrimLeft(Tail(s)) ELSE s

RECURSIVE TrimRight(_)
TrimRight(s) ==
  IF s # <<>> /\ IsSpace(s[Len(s)]) THEN TrimRight(SubSeq(s, 1, Len(s) - 1)) ELSE s

\* String.prototype.trim
Trim(s) == TrimRight(TrimLeft(s))

UpperChar(c) ==
  CASE c = "u" -> "U"
    [] c = "s" -> "S"
    [] c = "c" -> "C"
    [] c = "a" -> "A"
    [] OTHER   -> c

\* String.prototype.toUpperCase
ToUpperCase(s) == [k \in 1..Len(s) |-> UpperChar(s[k])]

\* String.prototype.split('|')
RECURSIVE SplitFrom(_, _, _)
SplitFrom(s, k, cur) ==
  IF k > Len(s) THEN <<cur>>
  ELSE IF s[k] = "|" THEN <<cur>> \o SplitFrom(s, k + 1, <<>>)
  ELSE SplitFrom(s, k + 1, Append(cur, s[k]))

Split(s) == SplitFrom(s, 1, <<>>)

\* [^\s@]+ : a non-empty run without whitespace and without '@'
PlainRun(s) == s # <<>> /\ \A k \in 1..Len(s) : ~IsSpace(s[k]) /\ s[k] # "@"

\* /^[^\s@]+@[^\s@]+\.[^\s@]+$/.test(email)
EmailRegexTest(s) ==
  \E a \in 1..Len(s) : \E d \in 1..Len(s) :
     /\ a < d
     /\ s[a] = "@"
     /\ s[d] = "."
     /\ PlainRun(SubSeq(s, 1, a - 1))
     /\ PlainRun(SubSeq(s, a + 1, d - 1))
     /\ PlainRun(SubSeq(s, d + 1, Len(s)))

\* ------------------------------------------------------- the input texts
GoodEmail    == <<"a", "@", "b", ".", "c">>
PaddedEmail  == <<" ", "a", "@", "b", ".", "c", " ">>
NoAtEmail    == <<"a", "b", ".", "c">>
NoDotEmail   == <<"a", "@", "b">>
SpaceEmail   == <<"a", " ", "@", "b", ".", "c">>
TwoAtEmail   == <<"a", "@", "@", "b", ".", "c">>
DotFirstMail == <<"a", "@", ".", "c">>

GoodAddress    == <<"n", "|", "l", "|", "c", "|", "s", "|", "z", "|", "U", "S">>
LowerAddress   == <<"n", "|", " ", "l", "|", "c", "|", "s", "|", "z", "|", " ", "u", "s">>
SevenAddress   == <<"n", "|", "l", "|", "c", "|", "s", "|", "z", "|", "U", "S", "|", "x">>
ShortAddress   == <<"n", "|", "l", "|", "c">>
NoStateAddress == <<"n", "|", "l", "|", "c", "|", " ", "|", "z", "|", "U", "S">>
CanadaAddress  == <<"n", "|", "l", "|", "c", "|", "|", "z", "|", "C", "A">>
CanadaFull     == <<"n", "|", "l", "|", "c", "|", "s", "|", "z", "|", "C", "A">>

Emails == {GoodEmail, PaddedEmail, NoAtEmail, NoDotEmail, SpaceEmail, TwoAtEmail, DotFirstMail}
Addresses == {GoodAddress, LowerAddress, SevenAddress, ShortAddress, NoStateAddress,
              CanadaAddress, CanadaFull}
\* what a user can type during checkout
Texts == Emails \cup Addresses \cup {<<" ">>}
\* what the wallet-created webhook can carry as email (no email, or any string)
WebhookEmails == {NoText, GoodEmail, NoAtEmail}

\* -------------------------------------------------------------- products
\* A product link is the sequence of its path segments; "B01", "B02" stand
\* for 10-character catalog ids.
Asins == {"B01", "B02"}
LinkDp     == <<"amazon.com", "dp", "B01">>
LinkGp     == <<"amazon.com", "gp", "product", "B02">>
LinkSearch == <<"amazon.com", "s">>
Prod1 == [title |-> "t1", link |-> LinkDp]
Prod2 == [title |-> "t2", link |-> LinkGp]
Prod3 == [title |-> "t3", link |-> LinkSearch]
\* result sets a search can return in the checkout runs, and in the cache runs
ProductLists == {<<Prod1, Prod3>>}
CacheProductLists == {<<>>, <<Prod1>>, <<Prod3, Prod1>>, <<Prod1, Prod2, Prod3, Prod2, Prod1>>}
Queries == {"headphones"}
\* parseInt(data.split(':')[1] || '0', 10): an integer or NaN
Indexes == {Num(0), Num(1)}
CacheIndexes == {Num(k) : k \in (0 - 1)..9} \cup {NaN}

\* amazonUrl.match(/\/(?:dp|gp\/product)\/([A-Z0-9]{10})/i)
AsinMatch(link) ==
  IF \E k \in 1..Len(link) - 1 : link[k] = "dp" /\ link[k + 1] \in Asins
    THEN LET k == CHOOSE k \in 1..Len(link) - 1 : link[k] = "dp" /\ link[k + 1] \in Asins
         IN link[k + 1]
  ELSE IF \E k \in 1..Len(link) - 2 :
            link[k] = "gp" /\ link[k + 1] = "product" /\ link[k + 2] \in Asins
    THEN LET k == CHOOSE k \in 1..Len(link) - 2 :
                    link[k] = "gp" /\ link[k + 1] = "product" /\ link[k + 2] \in Asins
         IN link[k + 2]
  ELSE None

\* a variant that falls back to the whole URL when it finds no catalog ID
ExtractProductLocatorAnyUrl(link) ==
  IF AsinMatch(link) # None THEN <<"amazon:", AsinMatch(link)>> ELSE <<"amazon:", link>>

\* extractProductLocator: `amazon:<asin>` or null
ExtractProductLocator(link) ==
  IF AsinMatch(link) # None THEN <<"amazon:", AsinMatch(link)>> ELSE NoText

\* getProductLocatorVariations
GetProductLocatorVariations(asin, link) ==
  << <<"amazon:", asin>>,
     <<"amazon:", "https://www.amazon.com/dp/", asin>>,
     <<"amazon:", link>>,
     <<asin>>,
     <<"https://www.amazon.com/dp/", asin>> >>

\* ----------------------------------------------------------------- state
VARIABLES
  now,              \* Date.now(), in hours
  searchCache,      \* searchHandler: searchCache[userId]
  walletUsers,      \* wallet.ts: walletUsers map
  userSessions,     \* checkoutHandler: userSessions map
  nextSid,          \* identity of the next session object created
  tasks,            \* bag of handlers suspended at an await
  lastRead,         \* the last cache read: its arguments, the entry it saw, its result
  cancelledPending, \* sessions cancelled while their order call was pending
  finished,         \* sessions whose createHeadlessOrder has returned or thrown
  submitted,        \* transactions posted to /wallets/{address}/transactions
  monitored,        \* orders startOrderMonitoring was called for
  localStorage,     \* the browser's localStorage item "processedTransactions"
  transactions,     \* the user's sell transactions at the provider, newest first
  walletSends,      \* wallet.send calls started, per transaction id
  rateLimitInfo,    \* SearchAPIService.rateLimitInfo
  requests          \* provider requests started by the search client, per tick

\* the users of a run
Users == DOMAIN userSessions

clientVars == <<localStorage, transactions, walletSends>>
limitVars == <<rateLimitInfo, requests>>

vars == <<now, searchCache, walletUsers, userSessions, nextSid, tasks,
          lastRead, cancelledPending, finished, submitted, monitored, clientVars, limitVars>>

checkoutVars == <<walletUsers, userSessions, nextSid, tasks,
                  cancelledPending, finished, submitted, monitored, clientVars, limitVars>>

\* ---------------------------------------------------------- search cache
\* a < b and a >= b in JavaScript: both false when a is NaN
JsLess(a, b) == ~a.nan /\ a.n < b
JsGeq(a, b)  == ~a.nan /\ a.n >= b

IsExpired(entry, t) == t - entry.timestamp > CACHE_DURATION

\* a variant whose clean-up only looks at the entry of the storing user
CacheSearchResultsOwnOnly(cache, userId, products, query, t) ==
  [cache EXCEPT ![userId] = [products |-> products, timestamp |-> t, query |-> query]]

\* cacheSearchResults(userId, products, query): the cache afterwards
CacheSearchResults(cache, userId, products, query, t) ==
  LET stored == [cache EXCEPT ![userId] =
                   [products |-> products, timestamp |-> t, query |-> query]]
  IN [uid \in DOMAIN cache |->
        IF stored[uid] # Nil /\ IsExpired(stored[uid], t) THEN Nil ELSE stored[uid]]

\* a variant that filters an expired entry without deleting it
GetCachedSearchResultsKeeping(cache, userId, t) ==
  IF cache[userId] = Nil \/ IsExpired(cache[userId], t)
    THEN [result |-> Nil, cache |-> cache]
  ELSE [result |-> [products |-> cache[userId].products, query |-> cache[userId].query],
        cache  |-> cache]

\* getCachedSearchResults(userId): the result and the cache afterwards
GetCachedSearchResults(cache, userId, t) ==
  IF cache[userId] = Nil
    THEN [result |-> Nil, cache |-> cache]
  ELSE IF IsExpired(cache[userId], t)
    THEN [result |-> Nil, cache |-> [cache EXCEPT ![userId] = Nil]]
  ELSE [result |-> [products |-> cache[userId].products, query |-> cache[userId].query],
        cache  |-> cache]

TypeError == [error |-> "TypeError"]

\* getCachedProduct(userId, index): null, the product, or the TypeError of
\* reading `.title` of products[NaN]
GetCachedProduct(cache, userId, index, t) ==
  LET got == GetCachedSearchResults(cache, userId, t)
  IN IF got.result = Nil
       THEN [result |-> Nil, cache |-> got.cache]
     ELSE IF JsLess(index, 0) \/ JsGeq(index, Len(got.result.products))
       THEN [result |-> Nil, cache |-> got.cache]
     ELSE IF index.nan
       THEN [result |-> TypeError, cache |-> got.cache]
     ELSE [result |-> got.result.products[index.n + 1], cache |-> got.cache]

\* getSelectedProduct(userId, index): the try/catch turns the error into null
GetSelectedProduct(cache, userId, index, t) ==
  LET got == GetCachedProduct(cache, userId, index, t)
  IN IF got.result \in {Nil, TypeError}
       THEN [result |-> Nil, cache |-> got.cache]
     ELSE [result |-> [title |-> got.result.title, amazonUrl |-> got.result.link],
           cache  |-> got.cache]

\* ------------------------------------------------------------ wallet map
NewWalletUser == [walletStatus |-> "not_created", walletAddress |-> FALSE, email |-> NoText]

\* hasWallet(userId)
HasWallet(wallets, userId) ==
  /\ wallets[userId] # Nil
  /\ wallets[userId].walletStatus = "created"
  /\ wallets[userId].walletAddress

\* updateUserAuth(userId, authData): `email || undefined`, status 'created'
UpdateUserAuth(wallets, userId, email) ==
  [wallets EXCEPT ![userId] =
     [walletStatus |-> "created", walletAddress |-> TRUE,
      email |-> email]]

\* clearUser(userId)
ClearUser(wallets, userId) == [wallets EXCEPT ![userId] = Nil]

\* -------------------------------------------------------- handlers in flight
Blank ==
  [kind |-> None, pc |-> None, user |-> 0, idx |-> Num(0), product |-> Nil,
   wemail |-> NoText, alias |-> FALSE, sid |-> 0, address |-> Nil,
   order |-> Nil, shown |-> None, posts |-> 0, signed |-> Nil,
   i |-> 0, calls |-> 0, accepted |-> 0, last |-> Nil, tried |-> <<>>,
   maxRetries |-> 0, transaction |-> 0, wake |-> 0]

TaskSet == BagToSet(tasks)
NumTasks(kind) == BagCardinality([t \in {x \in BagToSet(tasks) : x.kind = kind} |-> tasks[t]])
AddTask(B, t) == B (+) SetToBag({t})
DropTask(B, t) == B (-) SetToBag({t})
ReplaceTask(B, t, u) == AddTask(DropTask(B, t), u)

RECURSIVE SumCounts(_, _)
SumCounts(S, B) ==
  IF S = {} THEN 0
  ELSE LET x == CHOOSE x \in S : TRUE IN B[x] + SumCounts(S \ {x}, B)

\* the bag of F(t) for the tasks t of B
MapTasks(F(_), B) ==
  LET dom == BagToSet(B)
  IN [r \in {F(x) : x \in dom} |-> SumCounts({x \in dom : F(x) = r}, B)]

\* a handler holds the WalletUser object it read: updateUserAuth mutates that
\* object in place, clearUser detaches it from the map
MutateHeld(userId, email) ==
  LET F(t) == IF t.user = userId /\ t.alias
                THEN [t EXCEPT !.wemail = email]
                ELSE t
  IN MapTasks(F, tasks)

DetachHeld(userId) ==
  LET F(t) == IF t.user = userId THEN [t EXCEPT !.alias = FALSE] ELSE t
  IN MapTasks(F, tasks)

\* ---------------------------------------------------------- order gateway
\* What the provider can answer to POST /orders.  status 0: no response at
\* all (timeout, network failure); body "invalid": fails OrderResponseSchema.
OrderBodies ==
  [payment : {"awaiting-payment", "crypto-payer-insufficient-funds"},
   quote   : {"valid", "requires-physical-address"},
   tx      : BOOLEAN]

InvalidBody == [invalid |-> TRUE]

OrderResponses ==
  [status : {201}, message : {None}, body : OrderBodies \cup {InvalidBody}]
  \cup [status : {400}, message : {"Product not found", "Invalid payer", None}, body : {Nil}]
  \cup [status : {401, 404, 500, 0}, message : {None}, body : {Nil}]

\* axios resolves on 2xx
IsAccepted(resp) == resp.status \in {200, 201}

\* message?.includes('Product not found')
IncludesProductNotFound(message) == message = "Product not found"

\* One pass of the body of the for loop of createOrderWithRetry, after the
\* provider has answered: "return" the parsed order, "throw" the error, or
\* "continue" with the next variant.
AfterAttempt(resp) ==
  IF IsAccepted(resp)
    THEN IF resp.body # InvalidBody
           THEN "return"
           ELSE "continue"   \* ZodError: not an axios error, the else branch
    ELSE IF resp.status # 400 \/ ~IncludesProductNotFound(resp.message)
           THEN "throw"
           ELSE "continue"

\* the error object the attempt raised: a ZodError or the axios error
ErrorOf(resp) ==
  IF IsAccepted(resp)
    THEN [type |-> "zod", status |-> 0, message |-> None]
    ELSE [type |-> "axios", status |-> resp.status, message |-> resp.message]

\* new Error(message)
PlainError(message) == [type |-> "error", status |-> 0, message |-> message]

\* a variant that looks at the quote before it looks at the payment
OrderCheckAddressFirst(order) ==
  IF order.quote = "requires-physical-address"
    THEN "Physical address is required for this product"
  ELSE IF order.payment = "crypto-payer-insufficient-funds"
    THEN "Insufficient USDC funds in wallet"
  ELSE IF ~order.tx
    THEN "No serialized transaction found for order"
  ELSE None

\* a variant that returns an order whose payer lacks funds instead of throwing
OrderCheckLenient(order) ==
  IF order.quote = "requires-physical-address"
    THEN "Physical address is required for this product"
  ELSE IF ~order.tx /\ order.payment # "crypto-payer-insufficient-funds"
    THEN "No serialized transaction found for order"
  ELSE None

\* the checks of createWalletAmazonOrder on the validated response:
\* the message it throws, or None when it returns the order
OrderCheck(order) ==
  IF order.payment = "crypto-payer-insufficient-funds"
    THEN "Insufficient USDC funds in wallet"
  ELSE IF order.quote = "requires-physical-address"
    THEN "Physical address is required for this product"
  ELSE IF ~order.tx
    THEN "No serialized transaction found for order"
  ELSE None

\* the catch block of createWalletAmazonOrder: the message of the Error it
\* rethrows, as the sequence of its parts
RethrowMessage(error) ==
  IF error.type = "zod" THEN <<"Invalid response format from Crossmint API">>
  ELSE IF error.type = "axios"
    THEN IF error.status = 400
           THEN <<"Invalid order data: ",
                  IF error.message # None THEN error.message
                  ELSE "Check product locator and payment details">>
         ELSE IF error.status \in {401, 403}
           THEN <<"Invalid Crossmint API key or insufficient permissions">>
         ELSE IF error.status = 404
           THEN <<"Product not found or not supported for Amazon purchases">>
         ELSE IF error.status >= 500
           THEN <<"Crossmint service is temporarily unavailable">>
         ELSE <<"Order creation failed: ", "timeout">>
  ELSE <<"Unexpected error during order creation: ", "Error: ", error.message>>

\* errorMessage.includes(needle)
MessageIncludes(message, needle) ==
  \E k \in 1..Len(message) :
     \/ message[k] = needle
     \/ needle = "Insufficient USDC funds"
          /\ message[k] = "Insufficient USDC funds in wallet"
     \/ needle = "US shipping addresses"
          /\ message[k] \in {"Only US shipping addresses are supported at this time",
                              "State is required for US shipping addresses"}

\* createHeadlessOrder on the order createWalletAmazonOrder returned: which
\* branch of lines 1340-1488 runs
HeadlessBranch(order) ==
  IF order.payment = "crypto-payer-insufficient-funds" THEN "insufficient"
  ELSE IF order.quote = "requires-physical-address" THEN "throw"
  ELSE IF order.tx THEN "sign"
  ELSE "auto"

\* the catch block of createHeadlessOrder: which message it builds
CatchBranch(message) ==
  IF MessageIncludes(message, "Insufficient USDC funds") THEN "topup"
  ELSE IF MessageIncludes(message, "US shipping addresses") THEN "shipping"
  ELSE "general"

\* What the provider can answer to POST /wallets/{address}/transactions.
SignResponses == {200, 201, 202, 400, 500, 0}

\* a variant that takes every resolved response for a success
SignSuccessResolved(status) == status \in {200, 201, 202}

\* signOrderTransaction: the `success` field of its result
SignSuccess(status) == status \in {200, 201}

\* signOrderTransaction: what it returns; it throws nothing, its whole body
\* being inside try/catch
SignResult(status) ==
  IF SignSuccess(status)
    THEN [success |-> TRUE, transactionId |-> "id"]
  ELSE IF status \in {200, 201, 202}
    THEN [success |-> FALSE, error |-> "Transaction failed with status"]
  ELSE IF status # 0
    THEN [success |-> FALSE, error |-> "Transaction signing failed"]
  ELSE [success |-> FALSE, error |-> "Network error"]

\* ------------------------------------------------------------ delegation
\* BOT_SIGNER_ADDRESS, shortened to its first six characters
BOT_SIGNER_ADDRESS == <<"0", "x", "9", "A", "F", "6">>
\* the same signer as a provider may spell it, and another signer
BotSignerLower == <<"0", "x", "9", "a", "f", "6">>
BotSignerUpper == <<"0", "X", "9", "A", "F", "6">>
OtherSigner    == <<"0", "x", "9", "A", "F", "7">>
SignerAddresses == {BOT_SIGNER_ADDRESS, BotSignerLower, BotSignerUpper, OtherSigner}

LowerChar(c) ==
  CASE c = "A" -> "a"
    [] c = "F" -> "f"
    [] c = "X" -> "x"
    [] OTHER   -> c

\* String.prototype.toLowerCase
ToLowerCase(s) == [k \in 1..Len(s) |-> LowerChar(s[k])]

\* What GET /wallets/{address}/signers can give: fetch rejects ("failed"), a
\* non-OK status, an OK answer whose body is no JSON ("garbled"), or an OK
\* answer with the list of the signers' addresses.
SignerAnswers ==
  [kind : {"failed", "garbled"}, status : {0}, signers : {<<>>}]
  \cup [kind : {"answer"}, status : {401, 404, 500}, signers : {<<>>}]
  \cup [kind : {"answer"}, status : {200},
        signers : {<<>>} \cup {<<a>> : a \in SignerAddresses}
                  \cup {<<a, b>> : a \in {OtherSigner}, b \in SignerAddresses}]

\* response.ok
ResponseOk(answer) == answer.status \in 200..299

\* a variant that compares the addresses as they are spelled
SignerMatchesExact(signer) == signer = BOT_SIGNER_ADDRESS

\* signer.signer.toLowerCase() === BOT_SIGNER_ADDRESS.toLowerCase()
SignerMatches(signer) == ToLowerCase(signer) = ToLowerCase(BOT_SIGNER_ADDRESS)

\* delegatedSigners.some(...)
RECURSIVE Some(_)
Some(signers) ==
  IF signers = <<>> THEN FALSE
  ELSE IF SignerMatches(Head(signers)) THEN TRUE
  ELSE Some(Tail(signers))

\* isDelegatedToBotSigner(userId): every path returns a boolean, the catch
\* block included
IsDelegatedToBotSigner(wallets, userId, serverApiKey, answer) ==
  IF wallets[userId] = Nil \/ ~wallets[userId].walletAddress THEN FALSE
  ELSE IF ~serverApiKey THEN FALSE
  ELSE IF answer.kind = "failed" THEN FALSE        \* caught
  ELSE IF ~ResponseOk(answer) THEN FALSE
  ELSE IF answer.kind = "garbled" THEN FALSE       \* response.json() throws, caught
  ELSE Some(answer.signers)

\* ------------------------------------------------------------------ Init
InitFor(users) ==
  /\ now = 0
  /\ searchCache = [u \in users |-> Nil]
  /\ walletUsers = [u \in users |-> Nil]
  /\ userSessions = [u \in users |-> Nil]
  /\ nextSid = 1
  /\ tasks = EmptyBag
  /\ lastRead = Nil
  /\ cancelledPending = {}
  /\ finished = {}
  /\ submitted = {}
  /\ monitored = {}
  /\ localStorage = [hasItem |-> FALSE, value |-> {}]
  /\ transactions = <<>>
  /\ walletSends = [id \in 1..MaxTransactions |-> 0]
  /\ rateLimitInfo = [requestsPerSecond |-> 0, lastRequestTime |-> 0, requestCount |-> 0]
  /\ requests = [tick \in 0..MaxTime |-> 0]

Init == InitFor(1..NumUsers)

\* --------------------------------------------------------- environment
\* an hour passes
Tick ==
  /\ now < MaxTime
  /\ now' = now + 1
  /\ lastRead' = Nil
  /\ UNCHANGED searchCache
  /\ UNCHANGED checkoutVars

\* handleSearchCommand / handleAutoSearchCallback once the search returned:
\* cacheSearchResults(userId, products, query)
Search(u, products, query) ==
  /\ searchCache' = CacheSearchResults(searchCache, u, products, query, now)
  /\ lastRead' = Nil
  /\ UNCHANGED now
  /\ UNCHANGED checkoutVars

\* a search handler stores its results: cacheSearchResults(userId, products,
\* query), with the cache it found logged
CacheStore(u, products, query) ==
  /\ searchCache' = CacheSearchResults(searchCache, u, products, query, now)
  /\ lastRead' = [op |-> "store", user |-> u, products |-> products, query |-> query,
                  at |-> now, before |-> searchCache]
  /\ UNCHANGED now
  /\ UNCHANGED checkoutVars

\* a caller reads the cache: getCachedSearchResults(userId)
CacheGet(u) ==
  LET got == GetCachedSearchResults(searchCache, u, now)
  IN /\ searchCache' = got.cache
     /\ lastRead' = [op |-> "get", user |-> u, index |-> NaN, entry |-> searchCache[u],
                     at |-> now, result |-> got.result, after |-> got.cache[u]]
     /\ UNCHANGED now
     /\ UNCHANGED checkoutVars

\* a caller reads the cache: getCachedProduct(userId, index)
CacheGetByIndex(u, index) ==
  LET got == GetCachedProduct(searchCache, u, index, now)
  IN /\ searchCache' = got.cache
     /\ lastRead' = [op |-> "getByIndex", user |-> u, index |-> index,
                     entry |-> searchCache[u], at |-> now, result |-> got.result,
                     after |-> got.cache[u]]
     /\ UNCHANGED now
     /\ UNCHANGED checkoutVars

\* generateAuthLink(userId, userInfo): creates the record of a new user
SignUpLink(u) ==
  /\ walletUsers[u] = Nil
  /\ walletUsers' = [walletUsers EXCEPT ![u] = NewWalletUser]
  /\ UNCHANGED <<now, searchCache, lastRead, userSessions, nextSid, tasks,
                 cancelledPending, finished, submitted, monitored, clientVars, limitVars>>

\* POST /api/webhook/wallet-created
WalletCreated(u, email) ==
  /\ walletUsers' = UpdateUserAuth(walletUsers, u, email)
  /\ tasks' = IF walletUsers[u] # Nil THEN MutateHeld(u, email) ELSE tasks
  /\ UNCHANGED <<now, searchCache, lastRead, userSessions, nextSid,
                 cancelledPending, finished, submitted, monitored, clientVars, limitVars>>

\* a caller asks isDelegatedToBotSigner(userId); the call is logged with what
\* it saw
CheckDelegation(u, serverApiKey, answer) ==
  /\ lastRead' = [op |-> "isDelegated", user |-> u, wallet |-> walletUsers[u],
                  serverApiKey |-> serverApiKey, answer |-> answer,
                  result |-> IsDelegatedToBotSigner(walletUsers, u, serverApiKey, answer)]
  /\ UNCHANGED <<now, searchCache>>
  /\ UNCHANGED checkoutVars

\* POST /api/logout: clearUser(userId)
Logout(u) ==
  /\ walletUsers[u] # Nil
  /\ walletUsers' = ClearUser(walletUsers, u)
  /\ tasks' = DetachHeld(u)
  /\ UNCHANGED <<now, searchCache, lastRead, userSessions, nextSid,
                 cancelledPending, finished, submitted, monitored, clientVars, limitVars>>

\* ------------------------------------------------------------- checkout
\* addressText.split('|').map(p => p.trim())
AddressParts(text) == LET p == Split(text) IN [k \in 1..Len(p) |-> Trim(p[k])]

\* a variant without the check for empty fields
AddressVerdictAllowingEmpty(text) ==
  LET parts == AddressParts(text)
  IN IF Len(parts) < 6 THEN "format"
     ELSE IF ToUpperCase(parts[6]) # <<"U", "S">> THEN "country"
     ELSE "ok"

\* the three checks of handleAddressInput, in their order
AddressVerdict(text) ==
  LET parts == AddressParts(text)
  IN IF Len(parts) < 6 THEN "format"
     ELSE IF \E k \in 1..6 : parts[k] = <<>> THEN "incomplete"
     ELSE IF ToUpperCase(parts[6]) # <<"U", "S">> THEN "country"
     ELSE "ok"

\* session.physicalAddress as handleAddressInput builds it
AddressOf(text) ==
  LET parts == AddressParts(text)
  IN [name |-> parts[1], line1 |-> parts[2], city |-> parts[3], state |-> parts[4],
      postalCode |-> parts[5], country |-> ToUpperCase(parts[6])]

\* handleCrossmintBuy up to `await bot.answerCallbackQuery`
BuyClick(u, index) ==
  /\ NumTasks("buy") < MaxBuys
  /\ tasks' = AddTask(tasks, [Blank EXCEPT !.kind = "buy", !.pc = "answer",
                                           !.user = u, !.idx = index])
  /\ UNCHANGED <<now, searchCache, lastRead, walletUsers, userSessions, nextSid,
                 cancelledPending, finished, submitted, monitored, clientVars, limitVars>>

\* handleCrossmintBuy after answerCallbackQuery: getSelectedProduct, then
\* startWalletCheckoutFlow up to `await getWalletBalance`
BuyLookup(t) ==
  /\ t \in TaskSet /\ t.kind = "buy" /\ t.pc = "answer"
  /\ LET got == GetSelectedProduct(searchCache, t.user, t.idx, now)
     IN /\ searchCache' = got.cache
        /\ IF got.result = Nil
             THEN /\ tasks' = DropTask(tasks, t)
                  /\ UNCHANGED walletUsers
           ELSE IF ~HasWallet(walletUsers, t.user)
             \* generateAuthLink creates the user record when there is none
             THEN /\ tasks' = DropTask(tasks, t)
                  /\ walletUsers' = IF walletUsers[t.user] = Nil
                                      THEN [walletUsers EXCEPT ![t.user] = NewWalletUser]
                                      ELSE walletUsers
           ELSE /\ tasks' = ReplaceTask(tasks, t,
                               [t EXCEPT !.pc = "balance", !.product = got.result,
                                         !.wemail = walletUsers[t.user].email,
                                         !.alias = TRUE])
                /\ UNCHANGED walletUsers
  /\ UNCHANGED <<now, lastRead, userSessions, nextSid,
                 cancelledPending, finished, submitted, monitored, clientVars, limitVars>>

\* getWalletBalance: null (failed query), or the list of token balances
BalanceResults == {"null", "empty", "zero", "funded"}

\* startWalletCheckoutFlow after `await getWalletBalance`
BuyBalance(t, balance) ==
  /\ t \in TaskSet /\ t.kind = "buy" /\ t.pc = "balance"
  /\ tasks' = DropTask(tasks, t)
  /\ IF balance \in {"null", "empty"}
       THEN UNCHANGED <<userSessions, nextSid>>
       ELSE /\ nextSid <= MaxSessions
            /\ userSessions' = [userSessions EXCEPT ![t.user] =
                  [sid |-> nextSid, selectedProduct |-> t.product,
                   email |-> t.wemail, physicalAddress |-> Nil,
                   step |-> IF t.wemail # NoText THEN "collecting_address"
                            ELSE "collecting_email",
                   productIndex |-> t.idx]]
            /\ nextSid' = nextSid + 1
  /\ UNCHANGED <<now, searchCache, lastRead, walletUsers,
                 cancelledPending, finished, submitted, monitored, clientVars, limitVars>>

\* a cancel that also drops the user's cached search results
CancelClearingCache(u) ==
  /\ userSessions' = [userSessions EXCEPT ![u] = Nil]
  /\ searchCache' = [searchCache EXCEPT ![u] = Nil]
  /\ cancelledPending' =
       IF userSessions[u] # Nil
          /\ \E t \in TaskSet : t.kind = "order" /\ t.pc = "order_call"
                                  /\ t.sid = userSessions[u].sid
         THEN cancelledPending \cup {userSessions[u].sid}
         ELSE cancelledPending
  /\ UNCHANGED <<now, lastRead, walletUsers, nextSid, tasks,
                 finished, submitted, monitored, clientVars, limitVars>>

\* handleCheckoutCancel
Cancel(u) ==
  /\ userSessions' = [userSessions EXCEPT ![u] = Nil]
  /\ cancelledPending' =
       IF userSessions[u] # Nil
          /\ \E t \in TaskSet : t.kind = "order" /\ t.pc = "order_call"
                                  /\ t.sid = userSessions[u].sid
         THEN cancelledPending \cup {userSessions[u].sid}
         ELSE cancelledPending
  /\ UNCHANGED <<now, searchCache, lastRead, walletUsers, nextSid, tasks,
                 finished, submitted, monitored, clientVars, limitVars>>

\* handleWalletBuyCallback: an exported handler of the checkout module; the
\* callback router answers 'wallet_buy_now' itself and does not call it
WalletBuyCallback(u) ==
  LET session == userSessions[u]
  IN /\ session # Nil
     /\ userSessions' =
          IF session.email # NoText
            THEN [userSessions EXCEPT ![u] = [session EXCEPT !.step = "collecting_address"]]
            ELSE userSessions
     /\ UNCHANGED <<now, searchCache, lastRead, walletUsers, nextSid, tasks,
                    cancelledPending, finished, submitted, monitored, clientVars, limitVars>>

\* a variant that takes an address from a session of any step
CheckoutInputAnyStep(u, raw, limit) ==
  LET text    == Trim(raw)
      session == userSessions[u]
  IN /\ text # <<>>
     /\ session # Nil
     /\ session.step \in {"collecting_email", "collecting_address", "creating_order"}
     /\ IF session.step = "collecting_email"
          THEN /\ userSessions' =
                    IF EmailRegexTest(text)
                      THEN [userSessions EXCEPT ![u] =
                              [session EXCEPT !.email = text, !.step = "collecting_address"]]
                      ELSE userSessions
               /\ UNCHANGED tasks
          ELSE IF AddressVerdict(text) = "ok"
            THEN /\ NumTasks("order") < limit
                 /\ userSessions' = [userSessions EXCEPT ![u] =
                       [session EXCEPT !.physicalAddress = AddressOf(text),
                                       !.step = "creating_order"]]
                 /\ tasks' = AddTask(tasks,
                       [Blank EXCEPT !.kind = "order", !.pc = "creating_msg", !.user = u,
                                     !.sid = session.sid, !.idx = session.productIndex,
                                     !.product = session.selectedProduct,
                                     !.address = AddressOf(text)])
            ELSE UNCHANGED <<userSessions, tasks>>
     /\ UNCHANGED <<now, searchCache, lastRead, walletUsers, nextSid,
                    cancelledPending, finished, submitted, monitored, clientVars, limitVars>>

\* handleCheckoutMessage with handleEmailInput and handleAddressInput, up to
\* the first await of createHeadlessOrder; `limit` bounds the order attempts
\* in flight
CheckoutInput(u, raw, limit) ==
  LET text    == Trim(raw)
      session == userSessions[u]
  IN /\ text # <<>>
     /\ session # Nil
     /\ session.step \in {"collecting_email", "collecting_address"}
     /\ IF session.step = "collecting_email"
          THEN /\ userSessions' =
                    IF EmailRegexTest(text)
                      THEN [userSessions EXCEPT ![u] =
                              [session EXCEPT !.email = text, !.step = "collecting_address"]]
                      ELSE userSessions
               /\ UNCHANGED tasks
          ELSE IF AddressVerdict(text) = "ok"
            THEN /\ NumTasks("order") < limit
                 /\ userSessions' = [userSessions EXCEPT ![u] =
                       [session EXCEPT !.physicalAddress = AddressOf(text),
                                       !.step = "creating_order"]]
                 /\ tasks' = AddTask(tasks,
                       [Blank EXCEPT !.kind = "order", !.pc = "creating_msg", !.user = u,
                                     !.sid = session.sid, !.idx = session.productIndex,
                                     !.product = session.selectedProduct,
                                     !.address = AddressOf(text)])
            ELSE UNCHANGED <<userSessions, tasks>>
     /\ UNCHANGED <<now, searchCache, lastRead, walletUsers, nextSid,
                    cancelledPending, finished, submitted, monitored, clientVars, limitVars>>

\* handleCheckoutMessage in the runs that follow one order attempt at a time
CheckoutMessage(u, raw) == CheckoutInput(u, raw, MaxOrders)

\* generateTopUpLink throws 'User wallet not found' without a wallet address
TopUpLinkThrows(userId) ==
  walletUsers[userId] = Nil \/ ~walletUsers[userId].walletAddress

\* The catch block of createHeadlessOrder entered with `message`: it awaits
\* its sendMessage ("error_msg"), unless generateTopUpLink throws inside it
\* and the catch block of handleCheckoutMessage takes over ("generic_msg").
CatchPc(userId, message) ==
  IF CatchBranch(message) = "topup" /\ TopUpLinkThrows(userId)
    THEN "generic_msg" ELSE "error_msg"

\* `shown` is the message the catch block of createHeadlessOrder builds
Caught(t, message) ==
  [t EXCEPT !.pc = CatchPc(t.user, message), !.shown = CatchBranch(message)]

VariationsOf(t) ==
  GetProductLocatorVariations(AsinMatch(t.product.amazonUrl), t.product.amazonUrl)

\* createHeadlessOrder after the "Creating Order" message: the wallet lookup,
\* then createWalletAmazonOrder up to the first POST /orders
OrderStart(t) ==
  /\ t \in TaskSet /\ t.kind = "order" /\ t.pc = "creating_msg"
  /\ tasks' = ReplaceTask(tasks, t,
       IF walletUsers[t.user] = Nil \/ ~walletUsers[t.user].walletAddress
         THEN Caught(t, <<"User wallet not found">>)
       ELSE IF ExtractProductLocator(t.product.amazonUrl) = NoText
         THEN Caught(t, RethrowMessage(
                PlainError("Could not extract product locator from Amazon URL")))
       ELSE IF t.address.country # <<"U", "S">>
         THEN Caught(t, RethrowMessage(
                PlainError("Only US shipping addresses are supported at this time")))
       ELSE IF t.address.state = <<>>
         THEN Caught(t, RethrowMessage(
                PlainError("State is required for US shipping addresses")))
       ELSE [t EXCEPT !.pc = "order_call", !.i = 1, !.calls = 1,
                      !.tried = <<VariationsOf(t)[1]>>])
  /\ UNCHANGED <<now, searchCache, lastRead, walletUsers, userSessions, nextSid,
                 cancelledPending, finished, submitted, monitored, clientVars, limitVars>>

\* createHeadlessOrder once createWalletAmazonOrder returned `order`
AfterOrder(t, order) ==
  IF HeadlessBranch(order) = "insufficient"
    THEN IF TopUpLinkThrows(t.user)
           THEN Caught(t, <<"User wallet not found">>)
           ELSE [t EXCEPT !.pc = "insufficient_msg"]
  ELSE IF HeadlessBranch(order) = "throw"
    THEN Caught(t, <<"Physical address validation failed. Please check your shipping address.">>)
  ELSE IF HeadlessBranch(order) = "sign"
    THEN [t EXCEPT !.pc = "processing_msg"]
  ELSE [t EXCEPT !.pc = "auto_msg"]

\* createWalletAmazonOrder once createOrderWithRetry returned the response
AfterRetry(t, order) ==
  IF OrderCheck(order) # None
    THEN Caught(t, RethrowMessage(PlainError(OrderCheck(order))))
    ELSE AfterOrder(t, order)

\* the provider answers the pending POST /orders: the rest of this pass of
\* the loop of createOrderWithRetry and whatever follows up to the next await
OrderResponse(t, resp) ==
  /\ t \in TaskSet /\ t.kind = "order" /\ t.pc = "order_call"
  /\ LET n    == Len(VariationsOf(t))
         seen == [t EXCEPT !.last = resp,
                           !.accepted = IF IsAccepted(resp) THEN @ + 1 ELSE @]
         \* the loop is left: its counters are dropped with its stack frame
         done == [t EXCEPT !.i = 0, !.calls = 0, !.accepted = 0, !.tried = <<>>,
                           !.last = Nil]
     IN tasks' = ReplaceTask(tasks, t,
          IF AfterAttempt(resp) = "return"
            THEN AfterRetry([done EXCEPT !.order = resp.body], resp.body)
          ELSE IF AfterAttempt(resp) = "throw"
            THEN Caught(done, RethrowMessage(ErrorOf(resp)))
          ELSE IF t.i < n
            THEN [seen EXCEPT !.i = @ + 1, !.calls = @ + 1,
                              !.tried = Append(@, VariationsOf(t)[t.i + 1])]
          ELSE Caught(done, RethrowMessage(ErrorOf(resp))))
  /\ UNCHANGED <<now, searchCache, lastRead, walletUsers, userSessions, nextSid,
                 cancelledPending, finished, submitted, monitored, clientVars, limitVars>>

\* createHeadlessOrder after the "Processing Your Order" message:
\* signOrderTransaction posts the serialized transaction.  `delegated` is what
\* GET /wallets/{address}/signers would tell about the bot signer at this
\* moment; no line of signOrderTransaction or of its caller asks.
ProcessingSent(t, delegated) ==
  /\ t \in TaskSet /\ t.kind = "order" /\ t.pc = "processing_msg"
  /\ submitted' = submitted \cup
        {[sid |-> t.sid, user |-> t.user, delegated |-> delegated]}
  /\ tasks' = ReplaceTask(tasks, t,
        [t EXCEPT !.pc = "sign_call", !.posts = @ + 1])
  /\ UNCHANGED <<now, searchCache, lastRead, walletUsers, userSessions, nextSid,
                 cancelledPending, finished, monitored, clientVars, limitVars>>

\* the provider answers POST /wallets/{address}/transactions
SignResponse(t, status) ==
  /\ t \in TaskSet /\ t.kind = "order" /\ t.pc = "sign_call"
  /\ tasks' = ReplaceTask(tasks, t,
        [t EXCEPT !.pc = IF SignResult(status).success THEN "success_msg"
                         ELSE "failure_msg",
                  !.signed = [status |-> status, result |-> SignResult(status)]])
  /\ UNCHANGED <<now, searchCache, lastRead, walletUsers, userSessions, nextSid,
                 cancelledPending, finished, submitted, monitored, clientVars, limitVars>>

\* a variant that stores the session it holds back for another try when
\* signing failed
OrderCleanupRestoring(t) ==
  /\ t \in TaskSet /\ t.kind = "order"
  /\ t.pc \in {"success_msg", "auto_msg", "failure_msg", "insufficient_msg",
               "error_msg", "generic_msg"}
  /\ UNCHANGED <<clientVars, limitVars>>
  /\ monitored' = IF t.pc \in {"success_msg", "auto_msg"}
                    THEN monitored \cup {t.sid} ELSE monitored
  /\ userSessions' = IF t.pc = "failure_msg"
                       THEN [userSessions EXCEPT ![t.user] =
                               [sid |-> t.sid, selectedProduct |-> t.product,
                                email |-> NoText, physicalAddress |-> t.address,
                                step |-> "collecting_address", productIndex |-> t.idx]]
                       ELSE [userSessions EXCEPT ![t.user] = Nil]
  /\ finished' = finished \cup {t.sid}
  /\ tasks' = DropTask(tasks, t)
  /\ UNCHANGED <<now, searchCache, lastRead, walletUsers, nextSid,
                 cancelledPending, submitted>>

\* the last message of the attempt has been sent: what is left of
\* createHeadlessOrder (or of the catch block of handleCheckoutMessage)
OrderCleanup(t) ==
  /\ t \in TaskSet /\ t.kind = "order"
  /\ t.pc \in {"success_msg", "auto_msg", "failure_msg", "insufficient_msg",
               "error_msg", "generic_msg"}
  /\ UNCHANGED <<clientVars, limitVars>>
  /\ monitored' = IF t.pc \in {"success_msg", "auto_msg"}
                    THEN monitored \cup {t.sid} ELSE monitored
  /\ userSessions' = IF t.pc = "insufficient_msg"
                       THEN userSessions      \* `return` at line 1366
                       ELSE [userSessions EXCEPT ![t.user] = Nil]
  /\ finished' = finished \cup {t.sid}
  /\ tasks' = DropTask(tasks, t)
  /\ UNCHANGED <<now, searchCache, lastRead, walletUsers, nextSid,
                 cancelledPending, submitted>>

\* ------------------------------------------------- undelivered messages
\* bot.sendMessage rejects (the transport is down, or the user has blocked
\* the bot) while a handler awaits it.
\* handleEmailInput and handleAddressInput: every path but the one into
\* createHeadlessOrder ends with one awaited message; when it is rejected the
\* catch block of handleCheckoutMessage takes over and awaits its own message.
CheckoutReplyFails(u, raw) ==
  LET text    == Trim(raw)
      session == userSessions[u]
  IN /\ text # <<>>
     /\ session # Nil
     /\ session.step \in {"collecting_email", "collecting_address"}
     /\ session.step = "collecting_address" => AddressVerdict(text) # "ok"
     /\ NumTasks("input") + NumTasks("order") < MaxOrders
     /\ userSessions' =
          IF session.step = "collecting_email" /\ EmailRegexTest(text)
            THEN [userSessions EXCEPT ![u] =
                    [session EXCEPT !.email = text, !.step = "collecting_address"]]
            ELSE userSessions
     /\ tasks' = AddTask(tasks,
          [Blank EXCEPT !.kind = "input", !.pc = "generic_msg", !.user = u,
                        !.sid = session.sid])
     /\ UNCHANGED <<now, searchCache, lastRead, walletUsers, nextSid,
                    cancelledPending, finished, submitted, monitored, clientVars, limitVars>>

\* the catch block of handleCheckoutMessage after its message was sent
InputCleanup(t) ==
  /\ t \in TaskSet /\ t.kind = "input" /\ t.pc = "generic_msg"
  /\ userSessions' = [userSessions EXCEPT ![t.user] = Nil]
  /\ tasks' = DropTask(tasks, t)
  /\ UNCHANGED <<now, searchCache, lastRead, walletUsers, nextSid,
                 cancelledPending, finished, submitted, monitored, clientVars, limitVars>>

\* The message a handler awaits is rejected. Inside the try block of
\* createHeadlessOrder its catch block takes over with the text of the
\* rejection; inside that catch block the catch block of handleCheckoutMessage
\* takes over; inside the latter nothing does: the rejection leaves the
\* handler and the line that deletes the session is not reached.
SendFails(t) ==
  /\ t \in TaskSet /\ t.kind \in {"order", "input"}
  /\ t.pc \in {"creating_msg", "processing_msg", "success_msg", "auto_msg",
               "failure_msg", "insufficient_msg", "error_msg", "generic_msg"}
  /\ tasks' =
       IF t.pc = "generic_msg" THEN DropTask(tasks, t)
       ELSE IF t.pc = "error_msg" THEN ReplaceTask(tasks, t, [t EXCEPT !.pc = "generic_msg"])
       ELSE ReplaceTask(tasks, t, Caught(t, <<"ETELEGRAM">>))
  /\ finished' = IF t.pc = "generic_msg" /\ t.kind = "order"
                   THEN finished \cup {t.sid} ELSE finished
  /\ UNCHANGED <<now, searchCache, lastRead, walletUsers, userSessions, nextSid,
                 cancelledPending, submitted, monitored, clientVars, limitVars>>

\* ------------------------------------------------------ order monitoring
\* What GET /orders/{orderId} can give getOrder: no response or an error
\* status ("failed": getOrder rethrows), or the data of a 2xx response.
OrderStatusData ==
  {Nil}
  \cup [payment : {Nil}, phase : {"payment", "completed"}]
  \cup [payment : [status : {"awaiting-payment", "completed", "failed"}],
        phase   : {"payment", "completed"}]

OrderStatusAnswers ==
  {[kind |-> "failed", data |-> Nil]} \cup [kind : {"answer"}, data : OrderStatusData]

\* the branch the timer callback of startOrderMonitoring takes on orderData
MonitorNotice(data) ==
  IF data = Nil \/ data.payment = Nil THEN None
  ELSE IF data.payment.status = "completed" \/ data.phase = "completed" THEN "completed"
  ELSE IF data.payment.status = "failed" THEN "failed"
  ELSE None

\* startOrderMonitoring(orderId, userId): arms the timer and returns
StartOrderMonitoring(sid) ==
  /\ sid \notin monitored
  /\ UNCHANGED <<clientVars, limitVars>>
  /\ monitored' = monitored \cup {sid}
  /\ tasks' = AddTask(tasks, [Blank EXCEPT !.kind = "monitor", !.pc = "timer", !.sid = sid])
  /\ UNCHANGED <<now, searchCache, lastRead, walletUsers, userSessions, nextSid,
                 cancelledPending, finished, submitted>>

\* the timer fires after 10 seconds: the callback calls getOrder
MonitorTimeout(t) ==
  /\ t \in TaskSet /\ t.kind = "monitor" /\ t.pc = "timer"
  /\ tasks' = ReplaceTask(tasks, t, [t EXCEPT !.pc = "get_order", !.calls = @ + 1])
  /\ UNCHANGED <<now, searchCache, lastRead, walletUsers, userSessions, nextSid,
                 cancelledPending, finished, submitted, monitored, clientVars, limitVars>>

\* a variant that arms the timer once more while the order is pending
MonitorAnswerPolling(t, answer) ==
  /\ t \in TaskSet /\ t.kind = "monitor" /\ t.pc = "get_order"
  /\ tasks' = ReplaceTask(tasks, t,
       IF answer.kind = "failed" THEN [t EXCEPT !.pc = "done", !.last = "failed"]
       ELSE IF MonitorNotice(answer.data) # None
         THEN [t EXCEPT !.pc = "notify", !.order = answer.data,
                        !.shown = MonitorNotice(answer.data), !.last = "answer"]
       ELSE IF t.calls < 2
         THEN [t EXCEPT !.pc = "timer", !.order = answer.data, !.last = "answer"]
       ELSE [t EXCEPT !.pc = "done", !.order = answer.data, !.last = "answer"])
  /\ UNCHANGED <<now, searchCache, lastRead, walletUsers, userSessions, nextSid,
                 cancelledPending, finished, submitted, monitored, clientVars, limitVars>>

\* getOrder has answered or thrown: the callback sends a notification for a
\* completed or failed order and ends otherwise (the catch block only logs)
MonitorAnswer(t, answer) ==
  /\ t \in TaskSet /\ t.kind = "monitor" /\ t.pc = "get_order"
  /\ tasks' = ReplaceTask(tasks, t,
       IF answer.kind = "failed" THEN [t EXCEPT !.pc = "done", !.last = "failed"]
       ELSE IF MonitorNotice(answer.data) # None
         THEN [t EXCEPT !.pc = "notify", !.order = answer.data,
                        !.shown = MonitorNotice(answer.data), !.last = "answer"]
       ELSE [t EXCEPT !.pc = "done", !.order = answer.data, !.last = "answer"])
  /\ UNCHANGED <<now, searchCache, lastRead, walletUsers, userSessions, nextSid,
                 cancelledPending, finished, submitted, monitored, clientVars, limitVars>>

\* the notification has been handed to the transport; delivered or rejected,
\* the callback ends
MonitorNotified(t) ==
  /\ t \in TaskSet /\ t.kind = "monitor" /\ t.pc = "notify"
  /\ tasks' = ReplaceTask(tasks, t, [t EXCEPT !.pc = "done", !.posts = @ + 1])
  /\ UNCHANGED <<now, searchCache, lastRead, walletUsers, userSessions, nextSid,
                 cancelledPending, finished, submitted, monitored, clientVars, limitVars>>

\* ---------------------------------------------------- search with retry
\* How one call of searchAmazonProducts ends: with the products, or with one
\* of the errors its catch block throws (the message, as its parts).
SearchErrors ==
  { <<"Rate limit exceeded. Please try again later.">>,
    <<"Invalid", " SearchAPI.io ", "API key", ". Please check your configuration.">>,
    <<"SearchAPI.io service is temporarily unavailable.">>,
    <<"Search request failed: ", "Bad Request">>,
    <<"Invalid", " response format from search service.">>,
    <<"An unexpected error occurred during product search.">> }

SearchOutcomes == {[ok |-> TRUE, message |-> <<>>]} \cup [ok : {FALSE}, message : SearchErrors]

\* error.message.includes(needle)
ErrorIncludes(message, needle) == \E k \in 1..Len(message) : message[k] = needle

\* the errors searchWithRetry does not retry
NoRetry(message) == ErrorIncludes(message, "Invalid") \/ ErrorIncludes(message, "API key")

\* Math.pow(2, attempt), in seconds
RECURSIVE Pow2(_)
Pow2(n) == IF n = 0 THEN 1 ELSE 2 * Pow2(n - 1)

\* searchWithRetry(query, options, maxRetries) is called: attempt = 1
SearchWithRetry(maxRetries) ==
  /\ NumTasks("search") = 0
  /\ tasks' = AddTask(tasks, [Blank EXCEPT !.kind = "search", !.pc = "attempt", !.i = 1,
                                           !.maxRetries = maxRetries])
  /\ UNCHANGED <<now, searchCache, lastRead, walletUsers, userSessions, nextSid,
                 cancelledPending, finished, submitted, monitored, clientVars, limitVars>>

\* a variant that retries every error
SearchAttemptRetryAll(t, outcome) ==
  /\ t \in TaskSet /\ t.kind = "search" /\ t.pc = "attempt"
  /\ tasks' = ReplaceTask(tasks, t,
       LET made == [t EXCEPT !.calls = @ + 1]
       IN IF outcome.ok
            THEN [made EXCEPT !.pc = "returned",
                              !.tried = Append(@, [outcome |-> outcome, waited |-> 0])]
          ELSE IF t.i < t.maxRetries
            THEN [made EXCEPT !.pc = "backoff", !.last = outcome.message,
                              !.tried = Append(@, [outcome |-> outcome, waited |-> Pow2(t.i)])]
          ELSE [made EXCEPT !.pc = "thrown", !.last = outcome.message,
                            !.tried = Append(@, [outcome |-> outcome, waited |-> 0])])
  /\ UNCHANGED <<now, searchCache, lastRead, walletUsers, userSessions, nextSid,
                 cancelledPending, finished, submitted, monitored, clientVars, limitVars>>

\* one pass of the loop of searchWithRetry once searchAmazonProducts has
\* returned or thrown; `tried` logs each attempt with the seconds waited
\* after it
SearchAttempt(t, outcome) ==
  /\ t \in TaskSet /\ t.kind = "search" /\ t.pc = "attempt"
  /\ tasks' = ReplaceTask(tasks, t,
       LET made == [t EXCEPT !.calls = @ + 1]
       IN IF outcome.ok
            THEN [made EXCEPT !.pc = "returned",
                              !.tried = Append(@, [outcome |-> outcome, waited |-> 0])]
          ELSE IF NoRetry(outcome.message)
            THEN [made EXCEPT !.pc = "thrown", !.last = outcome.message,
                              !.tried = Append(@, [outcome |-> outcome, waited |-> 0])]
          ELSE IF t.i < t.maxRetries
            THEN [made EXCEPT !.pc = "backoff", !.last = outcome.message,
                              !.tried = Append(@, [outcome |-> outcome, waited |-> Pow2(t.i)])]
          ELSE [made EXCEPT !.pc = "thrown", !.last = outcome.message,
                            !.tried = Append(@, [outcome |-> outcome, waited |-> 0])])
  /\ UNCHANGED <<now, searchCache, lastRead, walletUsers, userSessions, nextSid,
                 cancelledPending, finished, submitted, monitored, clientVars, limitVars>>

\* the backoff timer fires: attempt++
SearchBackoff(t) ==
  /\ t \in TaskSet /\ t.kind = "search" /\ t.pc = "backoff"
  /\ tasks' = ReplaceTask(tasks, t, [t EXCEPT !.pc = "attempt", !.i = @ + 1])
  /\ UNCHANGED <<now, searchCache, lastRead, walletUsers, userSessions, nextSid,
                 cancelledPending, finished, submitted, monitored, clientVars, limitVars>>

\* the caller has taken the result or the error
SearchDone(t) ==
  /\ t \in TaskSet /\ t.kind = "search" /\ t.pc \in {"returned", "thrown"}
  /\ tasks' = DropTask(tasks, t)
  /\ UNCHANGED <<now, searchCache, lastRead, walletUsers, userSessions, nextSid,
                 cancelledPending, finished, submitted, monitored, clientVars, limitVars>>

\* ------------------------------------------------- withdrawal (web app)
\* getProccesedTransactions(transactionId)
GetProccesedTransactions(store, transactionId) ==
  IF store.hasItem THEN transactionId \in store.value ELSE FALSE

\* setProccesedTransactions(transactionId): with the item present, the parsed
\* copy is changed and dropped; setItem is called only without the item
SetProccesedTransactions(store, transactionId) ==
  IF store.hasItem THEN store
  ELSE [hasItem |-> TRUE, value |-> {transactionId}]

\* the user starts a sell at the provider: a new transaction heads the list
SellStarted ==
  /\ Len(transactions) < MaxTransactions
  /\ transactions' = <<[transaction_id |-> Len(transactions) + 1,
                        status |-> "TRANSACTION_STATUS_STARTED"]>> \o transactions
  /\ UNCHANGED <<now, searchCache, lastRead, walletUsers, userSessions, nextSid, tasks,
                 cancelledPending, finished, submitted, monitored>>
  /\ UNCHANGED <<localStorage, walletSends, limitVars>>

\* the provider moves a transaction out of TRANSACTION_STATUS_STARTED
SellSettled(k) ==
  /\ k \in 1..Len(transactions)
  /\ transactions[k].status = "TRANSACTION_STATUS_STARTED"
  /\ transactions' = [transactions EXCEPT ![k].status = "TRANSACTION_STATUS_SUCCESS"]
  /\ UNCHANGED <<now, searchCache, lastRead, walletUsers, userSessions, nextSid, tasks,
                 cancelledPending, finished, submitted, monitored>>
  /\ UNCHANGED <<localStorage, walletSends, limitVars>>

\* the effect of useProcessWithdrawal runs (mount, re-render with a new
\* userId or wallet, page reload) up to `await getTransactions(userId)`
WithdrawalEffect ==
  /\ NumTasks("withdrawal") < MaxEffects
  /\ tasks' = AddTask(tasks, [Blank EXCEPT !.kind = "withdrawal", !.pc = "get_transactions"])
  /\ UNCHANGED <<now, searchCache, lastRead, walletUsers, userSessions, nextSid,
                 cancelledPending, finished, submitted>>
  /\ UNCHANGED <<monitored, clientVars, limitVars>>

\* getTransactions has returned: the check, the mark and the start of
\* wallet.send
TransactionsReturned(t) ==
  /\ t \in TaskSet /\ t.kind = "withdrawal" /\ t.pc = "get_transactions"
  /\ IF /\ transactions # <<>>
        /\ transactions[1].status = "TRANSACTION_STATUS_STARTED"
        /\ ~GetProccesedTransactions(localStorage, transactions[1].transaction_id)
       THEN LET id == transactions[1].transaction_id
            IN /\ walletSends[id] < MaxSends
               /\ localStorage' = SetProccesedTransactions(localStorage, id)
               /\ walletSends' = [walletSends EXCEPT ![id] = @ + 1]
               /\ tasks' = ReplaceTask(tasks, t, [t EXCEPT !.pc = "send", !.transaction = id])
       ELSE /\ tasks' = DropTask(tasks, t)
            /\ UNCHANGED <<localStorage, walletSends>>
  /\ UNCHANGED <<now, searchCache, lastRead, walletUsers, userSessions, nextSid,
                 cancelledPending, finished, submitted, monitored, transactions, limitVars>>

\* wallet.send has resolved or rejected; the refetches change nothing here
SendSettled(t) ==
  /\ t \in TaskSet /\ t.kind = "withdrawal" /\ t.pc = "send"
  /\ tasks' = DropTask(tasks, t)
  /\ UNCHANGED <<now, searchCache, lastRead, walletUsers, userSessions, nextSid,
                 cancelledPending, finished, submitted>>
  /\ UNCHANGED <<monitored, clientVars, limitVars>>

\* ------------------------------------------------------ rate limiting
\* In the runs of the search client one unit of `now` is 500 ms.
\* 500 ms pass; a timer that is due fires before the clock moves on
LimitTick ==
  /\ \A t \in TaskSet : t.kind = "limit" => t.wake > now
  /\ Tick

\* a search enters searchAmazonProducts: enforceRateLimit up to its await,
\* or, without a wait, through to the provider request
EnforceRateLimit ==
  LET timeDiff == now - rateLimitInfo.lastRequestTime
      info     == IF timeDiff >= WindowMs
                    THEN [rateLimitInfo EXCEPT !.requestCount = 0, !.lastRequestTime = now]
                    ELSE rateLimitInfo
      waitTime == WindowMs - timeDiff
  IN /\ IF info.requestCount >= RequestsPerSecond /\ waitTime > 0
          THEN /\ NumTasks("limit") < MaxWaiting
               /\ rateLimitInfo' = info
               /\ tasks' = AddTask(tasks, [Blank EXCEPT !.kind = "limit", !.pc = "wait",
                                                        !.wake = now + waitTime])
               /\ UNCHANGED requests
          ELSE /\ rateLimitInfo' = [info EXCEPT !.requestCount = @ + 1]
               /\ requests' = [requests EXCEPT ![now] = @ + 1]
               /\ UNCHANGED tasks
     /\ UNCHANGED <<now, searchCache, lastRead, walletUsers, userSessions, nextSid,
                    cancelledPending, finished, submitted, monitored, clientVars>>

\* the timer of a waiting search fires: the rest of enforceRateLimit and the
\* provider request
RateWaitOver(t) ==
  /\ t \in TaskSet /\ t.kind = "limit" /\ t.pc = "wait"
  /\ now >= t.wake
  /\ rateLimitInfo' = [rateLimitInfo EXCEPT !.requestCount = 0 + 1, !.lastRequestTime = now]
  /\ requests' = [requests EXCEPT ![now] = @ + 1]
  /\ tasks' = DropTask(tasks, t)
  /\ UNCHANGED <<now, searchCache, lastRead, walletUsers, userSessions, nextSid,
                 cancelledPending, finished, submitted, monitored, clientVars>>

Next ==
  \/ \E u \in Users, products \in ProductLists, query \in Queries : Search(u, products, query)
  \/ \E u \in Users, email \in WebhookEmails : WalletCreated(u, email)
  \/ \E u \in Users : Logout(u)
  \/ \E u \in Users, index \in Indexes : BuyClick(u, index)
  \/ \E t \in TaskSet : BuyLookup(t)
  \/ \E t \in TaskSet, balance \in BalanceResults : BuyBalance(t, balance)
  \/ \E u \in Users : Cancel(u)
  \/ \E u \in Users, raw \in Texts : CheckoutMessage(u, raw)
  \/ \E t \in TaskSet : OrderStart(t)
  \/ \E t \in TaskSet, resp \in OrderResponses : OrderResponse(t, resp)
  \/ \E t \in TaskSet, delegated \in BOOLEAN : ProcessingSent(t, delegated)
  \/ \E t \in TaskSet, status \in SignResponses : SignResponse(t, status)
  \/ \E t \in TaskSet : OrderCleanup(t)

Spec == Init /\ [][Next]_vars

\* two users shopping side by side, up to the pending order-creation call
InitCancel == InitFor(1..NumCacheUsers)

NextCancel ==
  \/ \E u \in Users, products \in ProductLists, query \in Queries : Search(u, products, query)
  \/ \E u \in Users, email \in WebhookEmails : WalletCreated(u, email)
  \/ \E u \in Users, index \in Indexes : BuyClick(u, index)
  \/ \E t \in TaskSet : BuyLookup(t)
  \/ \E t \in TaskSet, balance \in BalanceResults : BuyBalance(t, balance)
  \/ \E u \in Users : Cancel(u)
  \/ \E u \in Users, raw \in Texts : CheckoutMessage(u, raw)
  \/ \E t \in TaskSet : OrderStart(t)

SpecCancel == InitCancel /\ [][NextCancel]_vars

\* the handlers of the checkout module up to the pending order-creation
\* call, handleWalletBuyCallback among them
InitWalletBuy == InitFor(1..NumUsers)

NextWalletBuy ==
  \/ \E u \in Users, products \in ProductLists, query \in Queries : Search(u, products, query)
  \/ \E u \in Users, email \in WebhookEmails : WalletCreated(u, email)
  \/ \E u \in Users, index \in Indexes : BuyClick(u, index)
  \/ \E t \in TaskSet : BuyLookup(t)
  \/ \E t \in TaskSet, balance \in BalanceResults : BuyBalance(t, balance)
  \/ \E u \in Users : Cancel(u)
  \/ \E u \in Users, raw \in Texts : CheckoutMessage(u, raw)
  \/ \E t \in TaskSet : OrderStart(t)
  \/ \E u \in Users : WalletBuyCallback(u)

SpecWalletBuy == InitWalletBuy /\ [][NextWalletBuy]_vars

\* the checkout flow when messages to the user may be rejected
NextDelivery ==
  \/ \E u \in Users, products \in ProductLists, query \in Queries : Search(u, products, query)
  \/ \E u \in Users, email \in WebhookEmails : WalletCreated(u, email)
  \/ \E u \in Users, index \in Indexes : BuyClick(u, index)
  \/ \E t \in TaskSet : BuyLookup(t)
  \/ \E t \in TaskSet, balance \in BalanceResults : BuyBalance(t, balance)
  \/ \E u \in Users, raw \in Texts : CheckoutMessage(u, raw)
  \/ \E t \in TaskSet : OrderStart(t)
  \/ \E t \in TaskSet, resp \in OrderResponses : OrderResponse(t, resp)
  \/ \E t \in TaskSet, delegated \in BOOLEAN : ProcessingSent(t, delegated)
  \/ \E t \in TaskSet, status \in SignResponses : SignResponse(t, status)
  \/ \E t \in TaskSet : OrderCleanup(t)
  \/ \E u \in Users, raw \in Texts : CheckoutReplyFails(u, raw)
  \/ \E t \in TaskSet : InputCleanup(t)
  \/ \E t \in TaskSet : SendFails(t)

SpecDelivery == Init /\ [][NextDelivery]_vars

\* the monitors of the orders handed to startOrderMonitoring
NextMonitor ==
  \/ \E sid \in 1..MaxSessions : StartOrderMonitoring(sid)
  \/ \E t \in TaskSet : MonitorTimeout(t)
  \/ \E t \in TaskSet, answer \in OrderStatusAnswers : MonitorAnswer(t, answer)
  \/ \E t \in TaskSet : MonitorNotified(t)

SpecMonitor == Init /\ [][NextMonitor]_vars

\* a purchase whose signing may fail, with searches that return different
\* result lists going on beside it
TryAgainLists == {<<Prod1, Prod3>>, <<Prod2, Prod1>>}
AcceptedWithTransaction ==
  [status |-> 201, message |-> None,
   body |-> [payment |-> "awaiting-payment", quote |-> "valid", tx |-> TRUE]]

NextTryAgain ==
  \/ \E u \in Users, products \in TryAgainLists, query \in Queries : Search(u, products, query)
  \/ \E u \in Users : WalletCreated(u, GoodEmail)
  \/ \E u \in Users, index \in Indexes : BuyClick(u, index)
  \/ \E t \in TaskSet : BuyLookup(t)
  \/ \E t \in TaskSet : BuyBalance(t, "funded")
  \/ \E u \in Users : CheckoutMessage(u, GoodAddress)
  \/ \E t \in TaskSet : OrderStart(t)
  \/ \E t \in TaskSet : OrderResponse(t, AcceptedWithTransaction)
  \/ \E t \in TaskSet, delegated \in BOOLEAN : ProcessingSent(t, delegated)
  \/ \E t \in TaskSet, status \in SignResponses : SignResponse(t, status)
  \/ \E t \in TaskSet : OrderCleanup(t)

SpecTryAgain == Init /\ [][NextTryAgain]_vars

\* the search client: one searchWithRetry at a time
NextSearch ==
  \/ \E maxRetries \in 1..MaxRetries : SearchWithRetry(maxRetries)
  \/ \E t \in TaskSet, outcome \in SearchOutcomes : SearchAttempt(t, outcome)
  \/ \E t \in TaskSet : SearchBackoff(t)
  \/ \E t \in TaskSet : SearchDone(t)

SpecSearch == Init /\ [][NextSearch]_vars

\* text messages sent back-to-back: order attempts stay pending, and a second
\* one may be in flight beside the first
NextBackToBack ==
  \/ \E u \in Users, products \in ProductLists, query \in Queries : Search(u, products, query)
  \/ \E u \in Users, email \in WebhookEmails : WalletCreated(u, email)
  \/ \E u \in Users, index \in Indexes : BuyClick(u, index)
  \/ \E t \in TaskSet : BuyLookup(t)
  \/ \E t \in TaskSet, balance \in BalanceResults : BuyBalance(t, balance)
  \/ \E u \in Users, raw \in Texts : CheckoutInput(u, raw, MaxOrders + 1)
  \/ \E t \in TaskSet : OrderStart(t)

SpecBackToBack == Init /\ [][NextBackToBack]_vars

\* the withdrawal hook of the web app with the provider's transaction list
NextWithdrawal ==
  \/ SellStarted
  \/ \E k \in 1..MaxTransactions : SellSettled(k)
  \/ WithdrawalEffect
  \/ \E t \in TaskSet : TransactionsReturned(t)
  \/ \E t \in TaskSet : SendSettled(t)

SpecWithdrawal == Init /\ [][NextWithdrawal]_vars

\* the rate limiter of the search client with any number of searches
NextRateLimit ==
  \/ LimitTick
  \/ EnforceRateLimit
  \/ \E t \in TaskSet : RateWaitOver(t)

SpecRateLimit == Init /\ [][NextRateLimit]_vars

\* the cache on its own: stores, reads and the clock
InitCache == InitFor(1..NumCacheUsers)

NextCache ==
  \/ Tick
  \/ \E u \in Users, products \in CacheProductLists, query \in Queries :
        CacheStore(u, products, query)
  \/ \E u \in Users : CacheGet(u)
  \/ \E u \in Users, index \in CacheIndexes : CacheGetByIndex(u, index)

SpecCache == InitCache /\ [][NextCache]_vars

\* the delegation check on its own, with the wallet records it reads
InitDelegation == InitFor(1..NumUsers)

NextDelegation ==
  \/ \E u \in Users, email \in WebhookEmails : WalletCreated(u, email)
  \/ \E u \in Users : Logout(u)
  \/ \E u \in Users : SignUpLink(u)
  \/ \E u \in Users, serverApiKey \in BOOLEAN, answer \in SignerAnswers :
        CheckDelegation(u, serverApiKey, answer)

SpecDelegation == InitDelegation /\ [][NextDelegation]_vars

\* ----------------------------------------------------------------- claims

\* C1: a checkout session has step creating_order only if it holds an email
\* of the form local@domain.tld (no whitespace, one '@', a dot in the domain
\* part) and an address whose six fields are non-empty with country 'US',
\* also when the email was copied from the wallet record.
C1_CreatingOrderHasValidEmailAndAddress ==
  \A u \in Users :
    userSessions[u] # Nil /\ userSessions[u].step = "creating_order" =>
      /\ EmailRegexTest(userSessions[u].email)
      /\ userSessions[u].physicalAddress # Nil
      /\ \A f \in {"name", "line1", "city", "state", "postalCode"} :
            userSessions[u].physicalAddress[f] # <<>>
      /\ userSessions[u].physicalAddress.country = <<"U", "S">>

\* C2: one createOrder invocation issues at most as many provider calls as
\* there are locator variants (5), in list order, and none after a call the
\* provider accepted.
C2_AtMostFiveCallsInOrderNoneAfterAccepted ==
  \A t \in TaskSet :
    t.kind = "order" /\ t.pc = "order_call" =>
      /\ t.calls <= Len(VariationsOf(t))
      /\ t.tried = SubSeq(VariationsOf(t), 1, t.calls)
      /\ t.accepted = 0

\* C3: a further variant is tried only after a provider error with status 400
\* and a 'Product not found' message; after any other failure, an accepted
\* response that fails validation included, no further call is made.
C3_NextVariantOnlyAfterProductNotFound ==
  \A t \in TaskSet :
    t.kind = "order" /\ t.pc = "order_call" /\ t.calls > 1 =>
      /\ t.last.status = 400
      /\ IncludesProductNotFound(t.last.message)

\* C4: within one createOrder invocation the provider answers 2xx to at most
\* one order-creation call, whatever the body of that answer.
C4_AtMostOneAcceptedCall ==
  \A t \in TaskSet : t.kind = "order" => t.accepted <= 1

\* C5: when the service signer is not delegated on the payer's wallet, the
\* serialized transaction is never posted to the transaction endpoint.
C5_SubmitsOnlyWhenDelegated ==
  \A s \in submitted : s.delegated

C7_CancelledAttemptHasNoEffect ==
  \A c \in cancelledPending :
    /\ c \notin monitored
    /\ \A s \in submitted : s.sid # c

C9_GetByIndexNotFoundOrProduct ==
  lastRead # Nil /\ lastRead.op = "getByIndex" =>
    LET e       == lastRead.entry
        k       == lastRead.index
        live    == e # Nil /\ lastRead.at - e.timestamp <= CACHE_DURATION
        inRange == live /\ ~k.nan /\ 0 <= k.n /\ k.n < Len(e.products)
    IN lastRead.result = IF inRange THEN e.products[k.n + 1] ELSE Nil

\* C10: a read (get or getByIndex) of an entry older than the TTL returns
\* 'not found' and removes the entry from the cache.
C10_ExpiredEntryUnreadableAndRemoved ==
  lastRead # Nil /\ lastRead.op \in {"get", "getByIndex"} /\ lastRead.entry # Nil
    /\ lastRead.at - lastRead.entry.timestamp > CACHE_DURATION
  => lastRead.result = Nil /\ lastRead.after = Nil

\* C10 witness: getByIndex with an index inside the stored list read an entry
\* older than the TTL, which no store had swept.
C10_Witness ==
  /\ lastRead # Nil /\ lastRead.op = "getByIndex" /\ lastRead.entry # Nil
  /\ lastRead.at - lastRead.entry.timestamp > CACHE_DURATION
  /\ ~lastRead.index.nan /\ 0 <= lastRead.index.n
  /\ lastRead.index.n < Len(lastRead.entry.products)
  /\ lastRead.result = Nil
  /\ searchCache[lastRead.user] = Nil

\* C11: after store(U, products, query) the entry of U holds exactly those
\* products and that query stamped with the current time, no entry of any
\* user is older than the TTL, and every other user's entry that was not
\* older than the TTL is unchanged.
C11_StoreReplacesAndSweeps ==
  lastRead # Nil /\ lastRead.op = "store" =>
    /\ searchCache[lastRead.user] =
         [products |-> lastRead.products, timestamp |-> lastRead.at,
          query |-> lastRead.query]
    /\ \A v \in Users :
         searchCache[v] # Nil => lastRead.at - searchCache[v].timestamp <= CACHE_DURATION
    /\ \A v \in Users \ {lastRead.user} :
         lastRead.before[v] # Nil
           /\ lastRead.at - lastRead.before[v].timestamp <= CACHE_DURATION
         => searchCache[v] = lastRead.before[v]

\* C11 witness: a store replaced the user's own entry while another user's
\* entry, older than the TTL, was removed by it.
C11_Witness ==
  /\ lastRead # Nil /\ lastRead.op = "store"
  /\ lastRead.before[lastRead.user] # Nil
  /\ searchCache[lastRead.user] # lastRead.before[lastRead.user]
  /\ \E v \in Users \ {lastRead.user} :
        /\ lastRead.before[v] # Nil
        /\ lastRead.at - lastRead.before[v].timestamp > CACHE_DURATION
        /\ searchCache[v] = Nil

C13_NoTransactionIsAutoCompleted ==
  \A t \in TaskSet :
    t.kind = "order" /\ t.order # Nil
      /\ t.order.payment = "awaiting-payment" /\ t.order.quote = "valid"
      /\ ~t.order.tx
    => t.pc = "auto_msg"

\* C14: with a serialized transaction and the service signer delegated, the
\* transaction is posted exactly once and the result is {success: true,
\* transactionId} when the provider answers 200 or 201 and {success: false,
\* error} otherwise; the result never is a manual-approval descriptor.
C14_DelegatedSubmitsOnceAndReports ==
  \A t \in TaskSet :
    t.kind = "order" /\ t.signed # Nil
      /\ (\E s \in submitted : s.sid = t.sid /\ s.delegated)
    => /\ t.posts = 1
       /\ t.order # Nil /\ t.order.tx
       /\ Cardinality({s \in submitted : s.sid = t.sid}) = 1
       /\ "requiredSignerLocator" \notin DOMAIN t.signed.result
       /\ IF t.signed.status \in {200, 201}
            THEN t.signed.result = [success |-> TRUE, transactionId |-> "id"]
            ELSE /\ ~t.signed.result.success
                 /\ DOMAIN t.signed.result = {"success", "error"}

\* C14 witness: the provider accepted the transaction of a delegated wallet
\* and the attempt holds the successful result.
C14_Witness ==
  \E t \in TaskSet :
    /\ t.kind = "order" /\ t.signed # Nil /\ t.signed.result.success
    /\ \E s \in submitted : s.sid = t.sid /\ s.delegated

\* C15: every attempt to complete a signature, whether the submission
\* succeeded or failed, schedules the re-check of the order.
C15_EverySigningAttemptIsMonitored ==
  \A s \in submitted : s.sid \in finished => s.sid \in monitored

\* C16: isDelegated returns true exactly when the user has a wallet, the API
\* key is set, the provider answers OK and its signer list contains the
\* service signer compared without regard to case; in every other case it
\* returns false, and it never raises an error.
C16_IsDelegatedExactlyWhenListed ==
  lastRead # Nil /\ lastRead.op = "isDelegated" =>
    LET a      == lastRead.answer
        listed == \E k \in 1..Len(a.signers) :
                     ToLowerCase(a.signers[k]) = BotSignerLower
        asked  == /\ lastRead.wallet # Nil /\ lastRead.wallet.walletAddress
                  /\ lastRead.serverApiKey
                  /\ a.kind = "answer" /\ a.status = 200
    IN /\ lastRead.result \in BOOLEAN
       /\ lastRead.result = (asked /\ listed)

\* C16 witness: the provider listed the service signer in another spelling,
\* after another signer, and the check returned true.
C16_Witness ==
  /\ lastRead # Nil /\ lastRead.op = "isDelegated"
  /\ lastRead.answer.signers = <<OtherSigner, BotSignerUpper>>
  /\ lastRead.result = TRUE

\* C17: a logout of user U leaves U without a wallet record, without a cache
\* entry and without an open checkout session, and changes no other user's
\* state.
C17_LogoutClearsEverything ==
  [][\A u \in Users :
       Logout(u) =>
         /\ walletUsers'[u] = Nil
         /\ searchCache'[u] = Nil
         /\ userSessions'[u] = Nil
         /\ \A o \in Users \ {u} :
              /\ walletUsers'[o] = walletUsers[o]
              /\ searchCache'[o] = searchCache[o]
              /\ userSessions'[o] = userSessions[o]]_vars

\* C18: a cancel by user U, whatever the step of U's session and also without
\* one, leaves U without a session at once and changes nothing else: the
\* cache, the wallet records, the other users' sessions and the handlers in
\* flight (a pending order-creation call included) stay as they were.
C18_CancelOnlyRemovesSession ==
  [][\A u \in Users :
       Cancel(u) =>
         /\ userSessions'[u] = Nil
         /\ \A o \in Users \ {u} : userSessions'[o] = userSessions[o]
         /\ searchCache' = searchCache
         /\ walletUsers' = walletUsers
         /\ tasks' = tasks
         /\ submitted' = submitted
         /\ monitored' = monitored]_vars

\* C18 witness: a session was cancelled while its order-creation call was
\* pending; its user has no session but still has the cache entry and the
\* wallet record, and another user's session is still open.
C18_Witness ==
  \E u \in Users :
    /\ userSessions[u] = Nil
    /\ searchCache[u] # Nil
    /\ walletUsers[u] # Nil
    /\ \E t \in TaskSet : /\ t.kind = "order" /\ t.pc = "order_call" /\ t.user = u
                          /\ t.sid \in cancelledPending
    /\ \E o \in Users \ {u} : userSessions[o] # Nil

\* the place of a step in the order of the checkout flow
StepRank(step) ==
  CASE step = "collecting_email"   -> 1
    [] step = "collecting_address" -> 2
    [] step = "creating_order"     -> 3

\* C19: while a session lives its step only moves forward along
\* collecting_email, collecting_address, creating_order, one step at a time,
\* and it keeps its product; a new session starts at collecting_address when
\* it was given an email from the wallet record and at collecting_email
\* otherwise; the only other change to a session is its removal.
C19_StepOnlyMovesForward ==
  [][\A u \in Users :
       LET old == userSessions[u]
           new == userSessions'[u]
       IN new # Nil =>
            IF old # Nil /\ old.sid = new.sid
              THEN /\ StepRank(new.step) \in {StepRank(old.step), StepRank(old.step) + 1}
                   /\ new.selectedProduct = old.selectedProduct
                   /\ new.productIndex = old.productIndex
              ELSE new.step = IF new.email # NoText THEN "collecting_address"
                              ELSE "collecting_email"]_vars

\* C20: when an exception was raised while a text input was processed (in
\* order creation and in its error reporting too), the handler ends by
\* removing the user's session: a handler that is reporting a failure
\* (awaiting the failure message of createHeadlessOrder or the generic one of
\* handleCheckoutMessage) and ends leaves its user without a session.
C20_ExceptionEndsInRemoval ==
  [][\A t \in TaskSet :
       (/\ t.kind \in {"order", "input"}
        /\ t.pc \in {"error_msg", "generic_msg"}
        /\ CopiesIn(t, tasks') < CopiesIn(t, tasks)
        /\ \A n \in DOMAIN tasks' : CopiesIn(n, tasks') <= CopiesIn(n, tasks))
       => userSessions'[t.user] = Nil]_vars

C22_SessionOnlyWithWalletAndFunds ==
  [][\A t \in TaskSet :
       /\ \A balance \in {"null", "empty", "zero"} :
            BuyBalance(t, balance) => userSessions' = userSessions
       /\ BuyBalance(t, "funded") /\ userSessions' # userSessions
            => HasWallet(walletUsers, t.user)]_vars

\* a text the checkout must reject at the given step: an email that fails the
\* pattern; an address with fewer than six fields, with an empty field among
\* the first six, or with a country other than US
RejectedInput(step, text) ==
  IF step = "collecting_email" THEN ~EmailRegexTest(text)
  ELSE LET parts == AddressParts(text)
       IN \/ Len(parts) < 6
          \/ \E k \in 1..6 : parts[k] = <<>>
          \/ ToUpperCase(parts[6]) # <<"U", "S">>

C24_OneQueryAtMostOneNotification ==
  \A t \in TaskSet : t.kind = "monitor" =>
    LET terminal == /\ t.last = "answer" /\ t.order # Nil /\ t.order.payment # Nil
                    /\ \/ t.order.payment.status \in {"completed", "failed"}
                       \/ t.order.phase = "completed"
    IN /\ tasks[t] = 1
       /\ \A o \in TaskSet : o.kind = "monitor" /\ o.sid = t.sid => o = t
       /\ t.sid \in monitored
       /\ t.calls <= 1
       /\ t.posts <= 1
       /\ t.pc \in {"notify", "done"} => t.calls = 1
       /\ t.posts = 1 \/ t.pc = "notify" => terminal
       /\ t.pc \in {"notify", "done"} /\ ~terminal => t.pc = "done" /\ t.posts = 0

\* C24 witness: one monitor has ended after a query that showed a pending
\* order, without a notification, and another after notifying of a failed
\* order.
C24_Witness ==
  \E t, o \in TaskSet :
    /\ t.kind = "monitor" /\ t.pc = "done" /\ t.calls = 1 /\ t.posts = 0
    /\ t.order # Nil /\ t.order.payment # Nil
    /\ t.order.payment.status = "awaiting-payment" /\ t.order.phase = "payment"
    /\ o.kind = "monitor" /\ o.pc = "done" /\ o.calls = 1 /\ o.posts = 1
    /\ o.shown = "failed"

\* C25: the try-again button offered with the signing-failure message starts a
\* checkout for the product the failed attempt had selected, whatever happened
\* in between: while that message is on its way, a click on its button
\* (crossmint_buy with the index of the failed session) selects that product.
C25_TryAgainSelectsFailedProduct ==
  \A t \in TaskSet :
    t.kind = "order" /\ t.pc = "failure_msg" =>
      GetSelectedProduct(searchCache, t.user, t.idx, now).result = t.product

\* C26: searchWithRetry makes at most maxRetries attempts; it returns on the
\* first success without a further attempt, throws at once on an error whose
\* message contains 'Invalid' or 'API key', waits 2^attempt seconds after a
\* failed attempt only when another attempt follows, and after the last
\* attempt throws the error of that attempt.
C26_SearchWithRetryBounded ==
  \A t \in TaskSet : t.kind = "search" =>
    LET n == Len(t.tried)
    IN /\ t.calls = n /\ n <= t.maxRetries
       /\ \A k \in 1..n :
            LET a == t.tried[k]
                final == a.outcome.ok \/ NoRetry(a.outcome.message) \/ k = t.maxRetries
            IN /\ final => k = n /\ a.waited = 0
               /\ ~final => a.waited = Pow2(k)
               /\ (~final /\ k = n) =>
                    ((t.pc = "backoff" /\ t.i = k) \/ (t.pc = "attempt" /\ t.i = k + 1))
               /\ (k = n /\ final) =>
                    IF a.outcome.ok THEN t.pc = "returned"
                    ELSE t.pc = "thrown" /\ t.last = a.outcome.message
       /\ t.pc \in {"returned", "thrown", "backoff"} => n >= 1
       /\ t.pc = "attempt" => t.i = n + 1 /\ t.i <= t.maxRetries

\* C26 witness: with maxRetries 3, two attempts failed with errors that are
\* retried, with waits of 2 and 4 seconds, and the third failed and was
\* thrown.
C26_Witness ==
  \E t \in TaskSet :
    /\ t.kind = "search" /\ t.pc = "thrown" /\ t.maxRetries = 3 /\ t.calls = 3
    /\ t.tried[1].waited = 2 /\ t.tried[2].waited = 4 /\ t.tried[3].waited = 0
    /\ ~NoRetry(t.last)

\* C27: at most one order creation is started per checkout session: whatever
\* texts arrive while an attempt is pending, no session has two order attempts.
C27_OneOrderAttemptPerSession ==
  \A t \in TaskSet : t.kind = "order" =>
    /\ tasks[t] = 1
    /\ \A o \in TaskSet : o.kind = "order" /\ o.sid = t.sid => o = t

\* C27 witness: the order-creation call of the user's session is pending with
\* the session at creating_order, where every further text finds no step to
\* handle it, while the attempt of an earlier session is pending beside it.
C27_Witness ==
  \E t, o \in TaskSet :
    /\ t.kind = "order" /\ t.pc = "order_call"
    /\ o.kind = "order" /\ o.pc = "order_call" /\ o.sid < t.sid /\ o.user = t.user
    /\ userSessions[t.user] # Nil
    /\ userSessions[t.user].sid = t.sid
    /\ userSessions[t.user].step = "creating_order"
    /\ \A raw \in Texts : ~ENABLED CheckoutInput(t.user, raw, MaxOrders + 2)

\* C28: the cleanup that ends an order attempt removes only the session that
\* started the attempt: a session of another purchase that the user holds when
\* the attempt ends is still stored, unchanged, after the cleanup.
C28_CleanupRemovesOnlyOwnSession ==
  [][\A t \in TaskSet :
       OrderCleanup(t) /\ userSessions[t.user] # Nil /\ userSessions[t.user].sid # t.sid
         => userSessions'[t.user] = userSessions[t.user]]_vars

\* C29: useProcessWithdrawal starts wallet.send at most once for one sell
\* transaction, whatever was marked as processed before it and however often
\* the effect runs while the transaction is in TRANSACTION_STATUS_STARTED.
C29_EachTransactionSentAtMostOnce ==
  \A id \in DOMAIN walletSends : walletSends[id] <= 1

\* C30: with any number of searches in flight, at most 10 provider requests
\* are started within one rate-limit window; here already within each 500 ms
\* of a window, the searches that waited for the window to roll over included.
C30_AtMostTenRequestsPerWindow ==
  \A tick \in DOMAIN requests : requests[tick] <= RequestsPerSecond

====
